---- MODULE Spec2Model ----
(***************************************************************************)
(* Model of goxide's rusty/result abrupt-termination bridge:               *)
(* Result[T], BubbleUp, Catch, CatchWith, Fallback and CatchErr, run on    *)
(* top of Go's defer / panic / recover.                                    *)
(*                                                                         *)
(* One guarded function call is modelled.  It first installs its deferred  *)
(* recovery points, then runs a body made of BubbleUp steps, and finally   *)
(* runs the deferred calls in last-in first-out order, with or without a   *)
(* panic in flight.                                                        *)
(*                                                                         *)
(* SpecApi evaluates a caller's expression over the constructors and       *)
(* combinators of Result and Option (Wrap, Map, AndThen, Map2, UnwrapOr,   *)
(* option.If, ...), recording which of the caller's functions each call    *)
(* invoked.  SpecGo runs two guarded functions on two goroutines.          *)
(***************************************************************************)
EXTENDS Integers, Sequences, FiniteSets, TLC

\* ------------------------------------------------------------------ bounds
MaxPoints == 3      \* CatchWith / Fallback points deferred by one function
MaxSteps == 2       \* BubbleUp steps in one function body
MaxChain == 3       \* combinators chained in one expression

\* ------------------------------------------------------------------ errors
\* The nil error interface value.
NilErr == "nil"

\* var ErrEmptyResult = fmt.Errorf("result is error but error was nil")
ErrEmptyResult == "ErrEmptyResult"

\* Sentinel errors of the callers (ErrDatabaseDown, ErrCacheMiss, ...) and an
\* error built with fmt.Errorf("...: %w", A), which wraps the sentinel A.
Sentinels == {"A", "B"}
Errors == Sentinels \cup {"wA", ErrEmptyResult}

\* errors.Unwrap: the error one level down the wrapping chain, or nil.
UnwrapErr(e) == IF e = "wA" THEN "A" ELSE NilErr

\* errors.Is(err, target): err or an error of its wrapping chain is target.
RECURSIVE ErrorsIs(_, _)
ErrorsIs(err, target) ==
    IF err = target THEN TRUE
    ELSE IF err = NilErr THEN FALSE
    ELSE ErrorsIs(UnwrapErr(err), target)

\* ------------------------------------------------------------------ Option
\* The nil *T held by an absent Option.
NilPtr == -1

\* types.Value[T](): the zero value of T.
ZeroValue == 0

Values == 0 .. 3

\* option.Some: Option[T]{isSome: true, value: &value}
Some(v) == [isSome |-> TRUE, value |-> v]

\* option.None: the zero Option[T]{}
None == [isSome |-> FALSE, value |-> NilPtr]

IsSome(optn) == optn.isSome

\* ------------------------------------------------------------------ Result
\* result.Ok
Ok(v) == [value |-> Some(v), err |-> NilErr]

\* result.Err: the error is stored as given, nil included.
Err(e) == [value |-> None, err |-> e]

\* The zero Result[T]: what a named result holds before it is assigned.
ZeroResult == [value |-> None, err |-> NilErr]

IsOk(r) == IsSome(r.value)

IsErr(r) == ~IsOk(r)

\* Result.Err(): nil for Ok, ErrEmptyResult for an Err holding nil.
ErrOf(r) ==
    IF IsErr(r)
    THEN IF r.err = NilErr THEN ErrEmptyResult ELSE r.err
    ELSE NilErr

\* ------------------------------------------------------------------ panics
NoPanic == [kind |-> "none"]

\* panic(tryError{e}): the library's own signal.
TryError(e) == [kind |-> "tryError", err |-> e]

\* Any other panic value (a string, a runtime error).
Foreign(v) == [kind |-> "foreign", val |-> v]

ForeignVals == {"boom", "oops"}

\* Result.Expect / Result.Unwrap: the value, or panic(panicMsg) on Err.
Expect(r, panicMsg) ==
    IF IsOk(r)
    THEN [panic |-> NoPanic, v |-> r.value.value]
    ELSE [panic |-> Foreign(panicMsg), v |-> ZeroValue]

Unwrap(r) == Expect(r, "value should be present when unwrap is called")

\* Result.ExpectErr: the error if Err, panic(panicMsg) if Ok.
ExpectErr(r, panicMsg) ==
    IF IsErr(r)
    THEN [panic |-> NoPanic, v |-> ErrOf(r)]
    ELSE [panic |-> Foreign(panicMsg), v |-> NilErr]

\* Option.Expect / Option.Unwrap: the value, or panic(panicMsg) on None.
OptionExpect(optn, panicMsg) ==
    IF IsSome(optn)
    THEN [panic |-> NoPanic, v |-> optn.value]
    ELSE [panic |-> Foreign(panicMsg), v |-> ZeroValue]

OptionUnwrap(optn) == OptionExpect(optn, "called Unwrap on None value")

\* BubbleUp, were it to hand back the zero value on Err instead of panicking.
BubbleUpNoPanic(r) ==
    IF IsErr(r)
    THEN [panic |-> NoPanic, v |-> ZeroValue]
    ELSE Unwrap(r)

\* Result.BubbleUp: the value if Ok, panic(tryError{r.Err()}) if Err.
BubbleUp(r) ==
    IF IsErr(r)
    THEN [panic |-> TryError(ErrOf(r)), v |-> ZeroValue]
    ELSE Unwrap(r)

\* ------------------------------------------------- the recovery operations
\* `if r := recover(); r != nil { panic(r) }` in a function the panicking
\* sequence called directly: recover() stops the panic p and hands back its
\* value, panic(r) starts a new panic with that value.
Repanic(p) ==
    LET r == p
    IN  IF r # NoPanic THEN r ELSE NoPanic

\* Catch, were it to store an Err without the signal's error.
CatchLosesError(res, p) ==
    IF p = NoPanic
    THEN [res |-> res, panic |-> NoPanic]
    ELSE IF p.kind = "tryError"
         THEN [res |-> Err(NilErr), panic |-> NoPanic]
         ELSE [res |-> res, panic |-> p]

\* Catch, were it to recover every panic without re-raising the foreign ones.
CatchSwallowsAll(res, p) ==
    IF p = NoPanic
    THEN [res |-> res, panic |-> NoPanic]
    ELSE IF p.kind = "tryError"
         THEN [res |-> Err(p.err), panic |-> NoPanic]
         ELSE [res |-> res, panic |-> NoPanic]

\* Catch(res), run as a deferred call with panic p in flight (NoPanic when
\* the deferring function is returning normally).
Catch(res, p) ==
    LET r == p
    IN  IF r # NoPanic
        THEN IF r.kind # "tryError"
             THEN [res |-> res, panic |-> r]
             ELSE [res |-> Err(r.err), panic |-> NoPanic]
        ELSE [res |-> res, panic |-> NoPanic]

\* A handler func(error) T of the caller: it returns a constant, or it
\* returns r.BubbleUp() for the Result r of a further fallible operation.
RetHandler(v) == [kind |-> "ret", v |-> v, r |-> ZeroResult]

BubbleHandler(r) == [kind |-> "bubble", v |-> ZeroValue, r |-> r]

\* The handler as it runs: r is what the handler's fallible operation returns
\* on this call.
WithResult(handler, r) ==
    IF handler.kind = "bubble" THEN BubbleHandler(r) ELSE handler

RunHandler(handler, err) ==
    IF handler.kind = "ret"
    THEN [panic |-> NoPanic, v |-> handler.v]
    ELSE BubbleUp(handler.r)

\* ApplyHandler, were a panic of the handler recovered and its zero result
\* stored as a success.
ApplyHandlerSwallows(res, p, handler, err) ==
    LET h == RunHandler(handler, err)
    IN  [res |-> Ok(h.v), panic |-> p, called |-> <<[err |-> err, ret |-> h]>>]

\* `*res = Ok(handler(err))`: the assignment happens only if the handler
\* returns; a panic of the handler replaces the panic in flight.
ApplyHandler(res, p, handler, err) ==
    LET h == RunHandler(handler, err)
    IN  IF h.panic = NoPanic
        THEN [res |-> Ok(h.v), panic |-> p, called |-> <<[err |-> err, ret |-> h]>>]
        ELSE [res |-> res, panic |-> h.panic, called |-> <<[err |-> err, ret |-> h]>>]

\* The closure, were it to ignore the `when` list.
CatchWithClosureAnyError(res, p, handler, when) ==
    IF IsOk(res)
    THEN [res |-> res, panic |-> p, called |-> <<>>]
    ELSE ApplyHandler(res, p, handler, ErrOf(res))

\* The closure, were an empty `when` list to match nothing.
CatchWithClosureEmptyNoMatch(res, p, handler, when) ==
    IF IsOk(res)
    THEN [res |-> res, panic |-> p, called |-> <<>>]
    ELSE IF \E i \in 1 .. Len(when) : ErrorsIs(ErrOf(res), when[i])
         THEN ApplyHandler(res, p, handler, ErrOf(res))
         ELSE [res |-> res, panic |-> p, called |-> <<>>]

\* The closure, were it to lack the `if res.IsOk() { return }` guard.
CatchWithClosureNoOkCheck(res, p, handler, when) ==
    LET err == ErrOf(res)
    IN  IF Len(when) = 0
        THEN ApplyHandler(res, p, handler, err)
        ELSE IF \E i \in 1 .. Len(when) : ErrorsIs(err, when[i])
             THEN ApplyHandler(res, p, handler, err)
             ELSE [res |-> res, panic |-> p, called |-> <<>>]

\* The closure CatchWith defers first, hence runs last.  It never calls
\* recover(), so a panic p still in flight goes on after it.
CatchWithClosure(res, p, handler, when) ==
    IF IsOk(res)
    THEN [res |-> res, panic |-> p, called |-> <<>>]
    ELSE LET err == ErrOf(res)
         IN  IF Len(when) = 0
             THEN ApplyHandler(res, p, handler, err)
             ELSE IF \E i \in 1 .. Len(when) : ErrorsIs(err, when[i])
                  THEN ApplyHandler(res, p, handler, err)
                  ELSE [res |-> res, panic |-> p, called |-> <<>>]

\* CatchWith, were it to lack its `defer Catch(res)`.
CatchWithNoCatch(res, p, handler, when) ==
    CatchWithClosure(res, Repanic(p), handler, when)

\* CatchWith(res, handler, when...): the body re-panics, the deferred
\* Catch(res) runs, then the deferred closure.
CatchWith(res, p, handler, when) ==
    LET p1 == Repanic(p)
        c  == Catch(res, p1)
    IN  CatchWithClosure(c.res, c.panic, handler, when)

\* Fallback, were it to store the fallback whatever the slot holds.
FallbackUnconditional(res, p, fallback, when) ==
    LET c == Catch(res, Repanic(p))
    IN  [res |-> Ok(fallback), panic |-> c.panic, called |-> <<>>]

\* Fallback(res, fallback, when...): the body re-panics, then the deferred
\* CatchWith runs with the constant handler.
Fallback(res, p, fallback, when) ==
    LET p1 == Repanic(p)
    IN  CatchWith(res, p1, RetHandler(fallback), when)

\* The closure, were it to reset both slots when nothing is in flight.
CatchErrClosureResets(out, err, p) ==
    IF p = NoPanic
    THEN [out |-> ZeroValue, err |-> NilErr, panic |-> NoPanic]
    ELSE IF p.kind = "tryError"
         THEN [out |-> ZeroValue, err |-> p.err, panic |-> NoPanic]
         ELSE [out |-> out, err |-> err, panic |-> p]

\* The closure CatchErr defers first, hence runs last, with what the
\* deferred Catch(&res) left in flight.
CatchErrClosure(out, err, p) ==
    LET r == p
    IN  IF r # NoPanic
        THEN IF r.kind = "tryError"
             THEN [out |-> ZeroValue, err |-> r.err, panic |-> NoPanic]
             ELSE [out |-> out, err |-> err, panic |-> r]
        ELSE [out |-> out, err |-> err, panic |-> NoPanic]

\* CatchErr(out, err): the body re-panics, the deferred Catch(&res) runs on a
\* local Result, then the deferred closure.
CatchErr(out, err, p) ==
    LET p1 == Repanic(p)
        c  == Catch(ZeroResult, p1)
    IN  CatchErrClosure(out, err, c.panic)


\* ---------------------------------------------------- callers' functions
\* The functions callers hand to the combinators, by name: fn(arg).
Apply(fn, arg) ==
    CASE fn = "inc" -> arg + 1                       \* func(T) U
      [] fn = "okInc" -> Ok(arg + 1)                 \* func(T) Result[U]
      [] fn = "failA" -> Err("A")                    \* func(T) Result[U]
      [] fn = "failNil" -> Err(NilErr)               \* func(T) Result[U]
      [] fn = "toB" -> "B"                           \* func(error) error
      [] fn = "toNil" -> NilErr                      \* func(error) error
      [] fn = "add" -> arg[1] + arg[2]               \* func(T, U) V
      [] fn = "add3" -> arg[1] + arg[2] + arg[3]     \* func(T, U, V) W
      [] fn = "someInc" -> Some(arg + 1)             \* func(T) Option[U]
      [] fn = "toNone" -> None                       \* func(T) Option[U]
      [] fn = "compute" -> 3                         \* func() T
      [] fn = "fromErr" -> 3                         \* func(error) T

\* What evaluating an expression did: the value it returned and the calls of
\* callers' functions it made, in order.
Pure(v) == [ret |-> v, called |-> <<>>]

Call(fn, arg) == [ret |-> Apply(fn, arg), called |-> <<[fn |-> fn, arg |-> arg]>>]

\* ------------------------------------------------------------ package types
\* Function values: a caller's function, the constructors Ok[T], Err[T],
\* Some[T] and None[T] used as functions, and what package types builds.
Caller(name) == [kind |-> "caller", name |-> name]

FuncOk == [kind |-> "Ok"]

FuncErr == [kind |-> "Err"]

FuncSome == [kind |-> "Some"]

FuncNone == [kind |-> "None"]

\* types.Id
Id == [kind |-> "Id"]

\* types.Return(t): func(_ In) T { return t }
Return(t) == [kind |-> "Return", t |-> t]

\* types.Return0(t): func() T { return t }
Return0(t) == [kind |-> "Return0", t |-> t]

\* types.Compose(fn1, fn2): func(t T) V { return fn2(fn1(t)) }
Compose(fn1, fn2) == [kind |-> "Compose", fn1 |-> fn1, fn2 |-> fn2]

\* The call f(x) of a function value; x is <<>> for a func().
RECURSIVE Invoke(_, _)
Invoke(f, x) ==
    CASE f.kind = "caller" -> Call(f.name, x)
      [] f.kind = "Ok" -> Pure(Ok(x))
      [] f.kind = "Err" -> Pure(Err(x))
      [] f.kind = "Some" -> Pure(Some(x))
      [] f.kind = "None" -> Pure(None)
      [] f.kind = "Id" -> Pure(x)
      [] f.kind = "Return" -> Pure(f.t)
      [] f.kind = "Return0" -> Pure(f.t)
      [] f.kind = "Compose" ->
           LET a == Invoke(f.fn1, x)
               b == Invoke(f.fn2, a.ret)
           IN  [ret |-> b.ret, called |-> a.called \o b.called]

\* -------------------------------------------------------- Option combinators
\* option.If, were it to call both functions.
OptionIfBoth(r, someFn, noneFn) ==
    LET s == Invoke(someFn, r.value)
        n == Invoke(noneFn, <<>>)
    IN  IF IsSome(r)
        THEN [ret |-> s.ret, called |-> s.called \o n.called]
        ELSE [ret |-> n.ret, called |-> n.called]

\* option.If: someFn(r.Unwrap()) if Some, noneFn() otherwise.
OptionIf(r, someFn, noneFn) ==
    IF IsSome(r) THEN Invoke(someFn, r.value) ELSE Invoke(noneFn, <<>>)

\* Option.UnwrapOr, were it to hand back the default whatever the tag.
OptionUnwrapOrAlwaysDefault(optn, defaultValue) ==
    OptionIf(optn, Return(defaultValue), Return0(defaultValue))

\* Option.UnwrapOr
OptionUnwrapOr(optn, defaultValue) ==
    OptionIf(optn, Id, Return0(defaultValue))

\* Option.UnwrapOrElse
OptionUnwrapOrElse(optn, fn) ==
    OptionIf(optn, Id, fn)

\* option.Map
OptionMap(r, fn) ==
    OptionIf(r, Compose(fn, FuncSome), FuncNone)

\* option.FlatMap
OptionFlatMap(r, fn) ==
    LET m == OptionMap(r, fn)
        f == OptionIf(m.ret, Id, FuncNone)
    IN  [ret |-> f.ret, called |-> m.called \o f.called]

\* -------------------------------------------------------- Result combinators
\* fmt.Errorf("nil value returned")
ErrNilValue == "nil value returned"

\* result.Wrap, were it to keep the value next to the error.
WrapKeepsValue(value, err) ==
    IF err # NilErr THEN [value |-> Some(value), err |-> err] ELSE Ok(value)

\* result.Wrap
Wrap(value, err) ==
    IF err # NilErr THEN Err(err) ELSE Ok(value)

\* result.WrapPtr, were it to take a nil pointer for a value.
WrapPtrNoNilCheck(value, err) ==
    IF err # NilErr THEN Err(err) ELSE Ok(value)

\* result.WrapPtr
WrapPtr(value, err) ==
    IF err # NilErr THEN Err(err)
    ELSE IF value = NilPtr THEN Err(ErrNilValue)
    ELSE Ok(value)

\* result.If, were it to hand the err field to errFn as stored.
IfRawErr(r, okFn, errFn) ==
    IF IsOk(r) THEN Invoke(okFn, Unwrap(r).v) ELSE Invoke(errFn, r.err)

\* result.If: okFn(r.Value().Unwrap()) if Ok, errFn(r.Err()) otherwise.
If(r, okFn, errFn) ==
    IF IsOk(r) THEN Invoke(okFn, Unwrap(r).v) ELSE Invoke(errFn, ErrOf(r))

\* Result.UnwrapOr
UnwrapOr(r, defaultValue) ==
    If(r, Id, Return(defaultValue))

\* Result.UnwrapOrElse
UnwrapOrElse(r, fn) ==
    If(r, Id, fn)

\* Result.MapError, were it to run fn on the Ok arm as well.
MapErrorCallsOnOk(r, fn) ==
    If(r, Compose(Compose(Return(NilErr), fn), Compose(Return(Unwrap(r).v), FuncOk)),
          Compose(fn, FuncErr))

\* Result.MapError
MapError(r, fn) ==
    If(r, FuncOk, Compose(fn, FuncErr))

\* result.Map, were it to build its Err without the error.
MapDropsError(r, fn) ==
    If(r, Compose(fn, FuncOk), Compose(Return(NilErr), FuncErr))

\* result.Map
Map(r, fn) ==
    If(r, Compose(fn, FuncOk), FuncErr)

\* result.FlatMap, were it to call fn again on the value it mapped.
FlatMapCallsTwice(r, fn) ==
    LET m == Map(r, fn)
        f == If(r, fn, FuncErr)
    IN  [ret |-> f.ret, called |-> m.called \o f.called]

\* result.FlatMap
FlatMap(r, fn) ==
    LET m == Map(r, fn)
        f == If(m.ret, Id, FuncErr)
    IN  [ret |-> f.ret, called |-> m.called \o f.called]

\* result.AndThen, were it to call fn on the zero value of an Err.
AndThenAlwaysCalls(r, fn) ==
    IF IsOk(r) THEN Invoke(fn, Unwrap(r).v)
    ELSE LET a == Invoke(fn, ZeroValue)
         IN  [ret |-> Err(ErrOf(r)), called |-> a.called]

\* result.AndThen
AndThen(r, fn) ==
    If(r, fn, FuncErr)

\* result.Map2, were it to look at its second input first.
Map2SecondFirst(r, s, fn) ==
    IF IsErr(s) THEN Pure(Err(ErrOf(s)))
    ELSE IF IsErr(r) THEN Pure(Err(ErrOf(r)))
    ELSE LET a == Invoke(fn, <<Unwrap(r).v, Unwrap(s).v>>)
         IN  [ret |-> Ok(a.ret), called |-> a.called]

\* result.Map2
Map2(r, s, fn) ==
    IF IsErr(r) THEN Pure(Err(ErrOf(r)))
    ELSE IF IsErr(s) THEN Pure(Err(ErrOf(s)))
    ELSE LET a == Invoke(fn, <<Unwrap(r).v, Unwrap(s).v>>)
         IN  [ret |-> Ok(a.ret), called |-> a.called]

\* result.Map3
Map3(r, s, t, fn) ==
    IF IsErr(r) THEN Pure(Err(ErrOf(r)))
    ELSE IF IsErr(s) THEN Pure(Err(ErrOf(s)))
    ELSE IF IsErr(t) THEN Pure(Err(ErrOf(t)))
    ELSE LET a == Invoke(fn, <<Unwrap(r).v, Unwrap(s).v, Unwrap(t).v>>)
         IN  [ret |-> Ok(a.ret), called |-> a.called]

\* ------------------------------------------------------------ package chain
\* chain.Chain[Out, T](r): &ApplyToResult[Out, T]{result: r}.  The type
\* arguments are kept, since Unwrap asserts on them.
Chain(out, in, r) == [result |-> r, in |-> in, out |-> out]

\* ApplyToResult.Map
ApplyToResultMap(applyToResult, fn) ==
    Map(applyToResult.result, fn)

\* ApplyToResult.AndThen, were it to call fn on the zero value of an Err.
ApplyToResultAndThenOnZero(applyToResult, fn) ==
    AndThenAlwaysCalls(applyToResult.result, fn)

\* ApplyToResult.AndThen
ApplyToResultAndThen(applyToResult, fn) ==
    AndThen(applyToResult.result, fn)

\* ApplyToResult.MapError: a wrapper of the same shape around the new Result.
ApplyToResultMapError(applyToResult, fn) ==
    LET m == MapError(applyToResult.result, fn)
    IN  [ret |-> Chain(applyToResult.out, applyToResult.in, m.ret), called |-> m.called]

\* ApplyToResult.Unwrap: Err[Out](err) if Err; the held Result if it is a
\* Result[Out], that is if In and Out are the same type; a panic otherwise.
ApplyToResultUnwrap(applyToResult) ==
    IF IsErr(applyToResult.result)
    THEN [panic |-> NoPanic, ret |-> Err(ErrOf(applyToResult.result)), called |-> <<>>]
    ELSE IF applyToResult.in = applyToResult.out
         THEN [panic |-> NoPanic, ret |-> applyToResult.result, called |-> <<>>]
         ELSE [panic |-> Foreign("type mismatch in chain unwrap"), ret |-> ZeroResult,
               called |-> <<>>]

\* ApplyToResult.OrElse
ApplyToResultOrElse(applyToResult, fallback) ==
    LET u == ApplyToResultUnwrap(applyToResult)
        v == UnwrapOr(u.ret, fallback)
    IN  IF u.panic # NoPanic
        THEN [panic |-> u.panic, ret |-> ZeroValue, called |-> <<>>]
        ELSE [panic |-> NoPanic, ret |-> v.ret, called |-> v.called]

\* ApplyToResult.OrElseGet
ApplyToResultOrElseGet(applyToResult, fn) ==
    LET u == ApplyToResultUnwrap(applyToResult)
        v == UnwrapOrElse(u.ret, fn)
    IN  IF u.panic # NoPanic
        THEN [panic |-> u.panic, ret |-> ZeroValue, called |-> <<>>]
        ELSE [panic |-> NoPanic, ret |-> v.ret, called |-> v.called]

\* chain.Chain2[Out2, Out1, T](r): &ApplyToResult2[Out1, Out2, T]{result: r}
Chain2(out2, out1, in, r) == [result |-> r, in |-> in, out1 |-> out1, out2 |-> out2]

\* ApplyToResult2.AndThen, were it to wrap the held Result and leave fn for later.
ApplyToResult2AndThenDeferred(applyToResult2, fn) ==
    [ret |-> Chain(applyToResult2.out2, applyToResult2.out1, applyToResult2.result),
     called |-> <<>>]

\* ApplyToResult2.AndThen: Chain[Out2](result.AndThen(held, fn))
ApplyToResult2AndThen(applyToResult2, fn) ==
    LET a == AndThen(applyToResult2.result, fn)
    IN  [ret |-> Chain(applyToResult2.out2, applyToResult2.out1, a.ret), called |-> a.called]

\* ApplyToResult2.Map: Chain[Out2](result.Map(held, fn))
ApplyToResult2Map(applyToResult2, fn) ==
    LET a == Map(applyToResult2.result, fn)
    IN  [ret |-> Chain(applyToResult2.out2, applyToResult2.out1, a.ret), called |-> a.called]

\* ------------------------------------------------------- the inputs drawn
StepResults == {Ok(1), Err("A"), Err("B"), Err("wA"), Err(NilErr)}

ReturnResults == {Ok(2), Err("A"), Err("B"), Err("wA"), Err(NilErr)}

\* The handlers a CatchWith is deferred with; what a "bubble" handler's
\* operation returns is drawn from HandlerResults when the handler runs.
Handlers == {RetHandler(1), BubbleHandler(ZeroResult)}

HandlerResults == {Ok(2), Err("A"), Err("B")}

WhenLists == {<<>>, <<"A">>, <<"B", "A">>}

FallbackValues == {3}

\* ------------------------------------------------------------------- state
VARIABLES
    sig,        \* "result": func() (res Result[T]); "pair": func() (val T, err error)
    defers,     \* the deferred recovery points, in the order they were deferred
    ip,         \* number of BubbleUp steps that returned a value so far
    trace,      \* the Results BubbleUp was called on in the body, in order
    pc,         \* "body", "unwind" (running the deferred calls), "done"
    bodyEnd,    \* how the body ended
    res,        \* the named result of a "result" function
    out,        \* the named value result of a "pair" function
    errSlot,    \* the named error result of a "pair" function
    panic,      \* the panic in flight
    dp,         \* index in defers of the next deferred call to run
    calls,      \* handler invocations so far: <<[point, err], ...>>
    api,        \* a caller's expression over the combinators, as evaluated so far
    gs,         \* two goroutines, each running a function of its own
    ch          \* a fluent chain.Chain / chain.Chain2 expression, as evaluated so far

vars == <<sig, defers, ip, trace, pc, bodyEnd, res, out, errSlot, panic, dp, calls, api, gs, ch>>

callVars == <<sig, defers, ip, trace, pc, bodyEnd, res, out, errSlot, panic, dp, calls>>

CatchPoint == [kind |-> "Catch", handler |-> RetHandler(ZeroValue), when |-> <<>>]

CatchErrPoint == [kind |-> "CatchErr", handler |-> RetHandler(ZeroValue), when |-> <<>>]

CatchWithPoint(handler, when) == [kind |-> "CatchWith", handler |-> handler, when |-> when]

FallbackPoint(fallback, when) == [kind |-> "Fallback", handler |-> RetHandler(fallback), when |-> when]

IsPoint(d) == d.kind \in {"CatchWith", "Fallback"}

NumPoints == Cardinality({i \in 1 .. Len(defers) : IsPoint(defers[i])})

Running == [kind |-> "running", res |-> ZeroResult, err |-> NilErr]

\* No expression evaluated yet.
ApiStart ==
    [r |-> ZeroResult, n |-> 0, op |-> "none", args |-> <<>>, ret |-> ZeroResult,
     called |-> <<>>, log |-> <<>>, open |-> FALSE]

Goroutines == {1, 2}

\* A goroutine about to run its function: nothing deferred, nothing raised.
GoFresh ==
    [pc |-> "install", defers |-> 0, dp |-> 0, ip |-> 0, res |-> ZeroResult,
     panic |-> NoPanic, raised |-> NilErr]

GoStart == [g \in Goroutines |-> GoFresh]

\* No chain started yet.
ChainStart ==
    [stage |-> "none", start |-> "none", src |-> ZeroResult,
     c |-> [result |-> ZeroResult, in |-> "int", out |-> "int"],
     hist |-> <<>>, op |-> "none", ret |-> ZeroResult, called |-> <<>>,
     log |-> <<>>, panic |-> NoPanic]

Init ==
    /\ sig \in {"result", "pair"}
    /\ defers = <<>>
    /\ ip = 0
    /\ trace = <<>>
    /\ pc = "body"
    /\ bodyEnd = Running
    /\ res = ZeroResult
    /\ out = ZeroValue
    /\ errSlot = NilErr
    /\ panic = NoPanic
    /\ dp = 0
    /\ calls = <<>>
    /\ api = ApiStart
    /\ gs = GoStart
    /\ ch = ChainStart

\* ------------------------------------------------------ installing defers
Installing == pc = "body" /\ ip = 0

\* defer Catch(&res), as the first deferred call of the function
DeferCatch ==
    /\ Installing /\ sig = "result" /\ defers = <<>>
    /\ defers' = Append(defers, CatchPoint)
    /\ UNCHANGED <<api, gs, ch, sig, ip, trace, pc, bodyEnd, res, out, errSlot, panic, dp, calls>>

\* defer CatchErr(&val, &err)
DeferCatchErr ==
    /\ Installing /\ sig = "pair" /\ defers = <<>>
    /\ defers' = Append(defers, CatchErrPoint)
    /\ UNCHANGED <<api, gs, ch, sig, ip, trace, pc, bodyEnd, res, out, errSlot, panic, dp, calls>>

\* defer CatchWith(&res, handler, when...)
DeferCatchWith ==
    /\ Installing /\ sig = "result" /\ NumPoints < MaxPoints
    /\ \E handler \in Handlers, when \in WhenLists :
          defers' = Append(defers, CatchWithPoint(handler, when))
    /\ UNCHANGED <<api, gs, ch, sig, ip, trace, pc, bodyEnd, res, out, errSlot, panic, dp, calls>>

\* defer Fallback(&res, fallback, when...)
DeferFallback ==
    /\ Installing /\ sig = "result" /\ NumPoints < MaxPoints
    /\ \E fallback \in FallbackValues, when \in WhenLists :
          defers' = Append(defers, FallbackPoint(fallback, when))
    /\ UNCHANGED <<api, gs, ch, sig, ip, trace, pc, bodyEnd, res, out, errSlot, panic, dp, calls>>

\* ---------------------------------------------------------------- the body
\* The body is MaxSteps BubbleUp steps followed by a return.
\* Leaving the body: the deferred calls run last-in first-out.
Leave ==
    /\ dp' = Len(defers)
    /\ pc' = IF Len(defers) = 0 THEN "done" ELSE "unwind"

\* x := step().BubbleUp()
BodyStep ==
    /\ pc = "body" /\ ip < MaxSteps
    /\ \E r \in StepResults :
          LET b == BubbleUp(r)
          IN  /\ trace' = Append(trace, r)
              /\ IF b.panic = NoPanic
                 THEN /\ ip' = ip + 1
                      /\ UNCHANGED <<pc, bodyEnd, panic, dp>>
                 ELSE /\ panic' = b.panic
                      /\ bodyEnd' = [kind |-> "bubble", res |-> r, err |-> ErrOf(r)]
                      /\ Leave
                      /\ UNCHANGED ip
    /\ UNCHANGED <<api, gs, ch, sig, defers, res, out, errSlot, calls>>

\* return r
BodyReturn ==
    /\ pc = "body" /\ ip = MaxSteps /\ sig = "result"
    /\ \E r \in ReturnResults :
          /\ res' = r
          /\ bodyEnd' = [kind |-> "return", res |-> r, err |-> ErrOf(r)]
    /\ Leave
    /\ UNCHANGED <<api, gs, ch, sig, defers, ip, trace, out, errSlot, panic, calls>>

\* return v, e
BodyReturnPair ==
    /\ pc = "body" /\ ip = MaxSteps /\ sig = "pair"
    /\ \E v \in {1, 2}, e \in {NilErr, "A"} :
          /\ out' = v
          /\ errSlot' = e
          /\ bodyEnd' = [kind |-> "return", res |-> [value |-> Some(v), err |-> e], err |-> e]
    /\ Leave
    /\ UNCHANGED <<api, gs, ch, sig, defers, ip, trace, res, panic, calls>>

\* panic(v) with a value that is not the library's tryError
BodyPanic ==
    /\ pc = "body"
    /\ \E v \in ForeignVals :
          /\ panic' = Foreign(v)
          /\ bodyEnd' = [kind |-> "foreign", res |-> ZeroResult, err |-> v]
    /\ Leave
    /\ UNCHANGED <<api, gs, ch, sig, defers, ip, trace, res, out, errSlot, calls>>

\* The calls of the body that take a value out and panic when it is absent.
Extractions == {"Result.Unwrap", "Result.Expect", "Result.ExpectErr",
                "Option.Unwrap", "Option.Expect"}

ExtractionInputs == {Ok(1), Err("A")}

PanicMsg == "msg"

Extract(call, r) ==
    CASE call = "Result.Unwrap" -> Unwrap(r)
      [] call = "Result.Expect" -> Expect(r, PanicMsg)
      [] call = "Result.ExpectErr" -> ExpectErr(r, PanicMsg)
      [] call = "Option.Unwrap" -> OptionUnwrap(r.value)
      [] call = "Option.Expect" -> OptionExpect(r.value, PanicMsg)

\* x := r.Unwrap(), and the same with Expect, ExpectErr and the Option forms
\* on the Result's Option, anywhere in the body; a call that hands back its
\* value changes nothing the deferred calls see.
BodyExtract ==
    /\ pc = "body"
    /\ \E call \in Extractions, r \in ExtractionInputs :
          LET x == Extract(call, r)
          IN  IF x.panic = NoPanic
              THEN UNCHANGED <<pc, bodyEnd, panic, dp>>
              ELSE /\ panic' = x.panic
                   /\ bodyEnd' = [kind |-> "foreign", res |-> ZeroResult, err |-> x.panic.val]
                   /\ Leave
    /\ UNCHANGED <<api, gs, ch, sig, defers, ip, trace, res, out, errSlot, calls>>

\* ------------------------------------------------- running deferred calls
\* Pop, were the unwind started over at the last deferred call whenever a
\* deferred call raises a new panic.
PopRestarts ==
    /\ dp' = IF panic = NoPanic /\ panic' # NoPanic THEN Len(defers) ELSE dp - 1
    /\ pc' = IF dp = 1 THEN "done" ELSE "unwind"

Pop ==
    /\ dp' = dp - 1
    /\ pc' = IF dp = 1 THEN "done" ELSE "unwind"

Unwinding(kind) == pc = "unwind" /\ dp >= 1 /\ defers[dp].kind = kind

Invocations(called) ==
    [i \in 1 .. Len(called) |-> [point |-> dp, err |-> called[i].err, ret |-> called[i].ret]]

RunCatch ==
    /\ Unwinding("Catch")
    /\ LET c == Catch(res, panic)
       IN  /\ res' = c.res
           /\ panic' = c.panic
    /\ Pop
    /\ UNCHANGED <<api, gs, ch, sig, defers, ip, trace, bodyEnd, out, errSlot, calls>>

RunCatchWith ==
    /\ Unwinding("CatchWith")
    /\ \E r \in HandlerResults :
          LET c == CatchWith(res, panic, WithResult(defers[dp].handler, r), defers[dp].when)
          IN  /\ res' = c.res
              /\ panic' = c.panic
              /\ calls' = calls \o Invocations(c.called)
    /\ Pop
    /\ UNCHANGED <<api, gs, ch, sig, defers, ip, trace, bodyEnd, out, errSlot>>

RunFallback ==
    /\ Unwinding("Fallback")
    /\ LET c == Fallback(res, panic, defers[dp].handler.v, defers[dp].when)
       IN  /\ res' = c.res
           /\ panic' = c.panic
           /\ calls' = calls \o Invocations(c.called)
    /\ Pop
    /\ UNCHANGED <<api, gs, ch, sig, defers, ip, trace, bodyEnd, out, errSlot>>

RunCatchErr ==
    /\ Unwinding("CatchErr")
    /\ LET c == CatchErr(out, errSlot, panic)
       IN  /\ out' = c.out
           /\ errSlot' = c.err
           /\ panic' = c.panic
    /\ Pop
    /\ UNCHANGED <<api, gs, ch, sig, defers, ip, trace, bodyEnd, res, calls>>

Next ==
    \/ DeferCatch
    \/ DeferCatchErr
    \/ DeferCatchWith
    \/ DeferFallback
    \/ BodyStep
    \/ BodyReturn
    \/ BodyReturnPair
    \/ BodyPanic
    \/ BodyExtract
    \/ RunCatch
    \/ RunCatchWith
    \/ RunFallback
    \/ RunCatchErr

Spec == Init /\ [][Next]_vars

\* ------------------------------------------- expressions over the combinators
\* A caller builds a Result, chains up to MaxChain combinators on it, then
\* takes the value out.  api.r is the Result in hand; op, args, ret and called
\* describe the last call; log names every caller's function invoked so far.
ApiValues == {1, 2}

ApiErrors == {"A", "B", NilErr}

Pointers == {NilPtr, 1}

Defaults == {1, 3}

Map2Inputs == {Ok(1), Err("B"), Err(NilErr)}

Map3Inputs == {Ok(1), Err("A")}

AndThenFns == {"okInc", "failA", "failNil"}

MapFns == {Caller("inc"), Id}

MapErrorFns == {"toB", "toNil"}

OptionFlatMapFns == {"someInc", "toNone"}

GuardPoints ==
    {CatchPoint, CatchWithPoint(RetHandler(1), <<"A">>), FallbackPoint(3, <<>>)}

\* How a function value shows in api.args.
FnName(f) == IF f.kind = "caller" THEN f.name ELSE f.kind

Names(called) == [i \in 1 .. Len(called) |-> called[i].fn]

Chaining == api.open /\ api.n < MaxChain

\* A constructor call starts the expression.
Build(op, args, r, open) ==
    api' = [r |-> r, n |-> 0, op |-> op, args |-> args, ret |-> r,
            called |-> <<>>, log |-> <<>>, open |-> open]

\* A combinator call, whose Result is the one in hand from then on.
Extend(op, args, e) ==
    api' = [r |-> e.ret, n |-> api.n + 1, op |-> op, args |-> args, ret |-> e.ret,
            called |-> e.called, log |-> api.log \o Names(e.called), open |-> TRUE]

\* A call that takes the value out ends the expression.
Finish(op, args, e) ==
    api' = [api EXCEPT !.op = op, !.args = args, !.ret = e.ret, !.called = e.called,
                       !.log = api.log \o Names(e.called), !.open = FALSE]

InitApi ==
    /\ sig = "result"
    /\ defers = <<>>
    /\ ip = 0
    /\ trace = <<>>
    /\ pc = "body"
    /\ bodyEnd = Running
    /\ res = ZeroResult
    /\ out = ZeroValue
    /\ errSlot = NilErr
    /\ panic = NoPanic
    /\ dp = 0
    /\ calls = <<>>
    /\ api = ApiStart
    /\ gs = GoStart
    /\ ch = ChainStart

ApiOk ==
    /\ api.op = "none"
    /\ \E v \in ApiValues : Build("Ok", <<v>>, Ok(v), TRUE)
    /\ UNCHANGED <<callVars, gs, ch>>

ApiErr ==
    /\ api.op = "none"
    /\ \E e \in ApiErrors : Build("Err", <<e>>, Err(e), TRUE)
    /\ UNCHANGED <<callVars, gs, ch>>

ApiWrap ==
    /\ api.op = "none"
    /\ \E v \in ApiValues, e \in ApiErrors : Build("Wrap", <<v, e>>, Wrap(v, e), TRUE)
    /\ UNCHANGED <<callVars, gs, ch>>

\* A Result[*T]: the combinators below are not chained on it.
ApiWrapPtr ==
    /\ api.op = "none"
    /\ \E p \in Pointers, e \in ApiErrors : Build("WrapPtr", <<p, e>>, WrapPtr(p, e), FALSE)
    /\ UNCHANGED <<callVars, gs, ch>>

ApiMap ==
    /\ Chaining
    /\ \E fn \in MapFns : Extend("Map", <<api.r, FnName(fn)>>, Map(api.r, fn))
    /\ UNCHANGED <<callVars, gs, ch>>

ApiFlatMap ==
    /\ Chaining
    /\ \E fn \in AndThenFns : Extend("FlatMap", <<api.r, fn>>, FlatMap(api.r, Caller(fn)))
    /\ UNCHANGED <<callVars, gs, ch>>

ApiAndThen ==
    /\ Chaining
    /\ \E fn \in AndThenFns : Extend("AndThen", <<api.r, fn>>, AndThen(api.r, Caller(fn)))
    /\ UNCHANGED <<callVars, gs, ch>>

ApiMapError ==
    /\ Chaining
    /\ \E fn \in MapErrorFns : Extend("MapError", <<api.r, fn>>, MapError(api.r, Caller(fn)))
    /\ UNCHANGED <<callVars, gs, ch>>

ApiMap2 ==
    /\ Chaining
    /\ \E s \in Map2Inputs : Extend("Map2", <<api.r, s, "add">>, Map2(api.r, s, Caller("add")))
    /\ UNCHANGED <<callVars, gs, ch>>

ApiMap3 ==
    /\ Chaining
    /\ \E s \in Map3Inputs, t \in Map2Inputs :
          Extend("Map3", <<api.r, s, t, "add3">>, Map3(api.r, s, t, Caller("add3")))
    /\ UNCHANGED <<callVars, gs, ch>>

\* The guarded function, were nothing deferred in it.
GuardNoCatch(r, point) ==
    LET b == BubbleUp(r)
    IN  [ret |-> IF b.panic = NoPanic THEN Ok(b.v) ELSE ZeroResult,
         panic |-> b.panic, called |-> <<>>]

\* func() (res Result[T]) { defer Catch(&res); return Ok(r.BubbleUp()) }, and
\* the same with CatchWith or Fallback deferred.
Guard(r, point) ==
    LET b == BubbleUp(r)
        res0 == IF b.panic = NoPanic THEN Ok(b.v) ELSE ZeroResult
    IN  CASE point.kind = "Catch" ->
               LET c == Catch(res0, b.panic)
               IN  [ret |-> c.res, panic |-> c.panic, called |-> <<>>]
          [] point.kind = "CatchWith" ->
               LET c == CatchWith(res0, b.panic, point.handler, point.when)
               IN  [ret |-> c.res, panic |-> c.panic,
                    called |-> [i \in 1 .. Len(c.called) |->
                                  [fn |-> "handler", arg |-> c.called[i].err]]]
          [] point.kind = "Fallback" ->
               LET c == Fallback(res0, b.panic, point.handler.v, point.when)
               IN  [ret |-> c.res, panic |-> c.panic,
                    called |-> [i \in 1 .. Len(c.called) |->
                                  [fn |-> "fallback", arg |-> c.called[i].err]]]

ApiGuard ==
    /\ Chaining
    /\ \E point \in GuardPoints : Extend("Guard", <<api.r, point>>, Guard(api.r, point))
    /\ UNCHANGED <<callVars, gs, ch>>

ApiUnwrapOr ==
    /\ api.open
    /\ \E d \in Defaults : Finish("UnwrapOr", <<api.r, d>>, UnwrapOr(api.r, d))
    /\ UNCHANGED <<callVars, gs, ch>>

ApiUnwrapOrElse ==
    /\ api.open
    /\ Finish("UnwrapOrElse", <<api.r, "fromErr">>, UnwrapOrElse(api.r, Caller("fromErr")))
    /\ UNCHANGED <<callVars, gs, ch>>

\* r.Value().UnwrapOr(d) and the other calls on the Option r.Value().
ApiOptionUnwrapOr ==
    /\ api.open
    /\ \E d \in Defaults :
          Finish("Option.UnwrapOr", <<api.r.value, d>>, OptionUnwrapOr(api.r.value, d))
    /\ UNCHANGED <<callVars, gs, ch>>

ApiOptionUnwrapOrElse ==
    /\ api.open
    /\ Finish("Option.UnwrapOrElse", <<api.r.value, "compute">>,
              OptionUnwrapOrElse(api.r.value, Caller("compute")))
    /\ UNCHANGED <<callVars, gs, ch>>

ApiOptionIf ==
    /\ api.open
    /\ Finish("option.If", <<api.r.value, "inc", "compute">>,
              OptionIf(api.r.value, Caller("inc"), Caller("compute")))
    /\ UNCHANGED <<callVars, gs, ch>>

ApiOptionMap ==
    /\ api.open
    /\ \E fn \in MapFns :
          Finish("option.Map", <<api.r.value, FnName(fn)>>, OptionMap(api.r.value, fn))
    /\ UNCHANGED <<callVars, gs, ch>>

ApiOptionFlatMap ==
    /\ api.open
    /\ \E fn \in OptionFlatMapFns :
          Finish("option.FlatMap", <<api.r.value, fn>>, OptionFlatMap(api.r.value, Caller(fn)))
    /\ UNCHANGED <<callVars, gs, ch>>

NextApi ==
    \/ ApiOk
    \/ ApiErr
    \/ ApiWrap
    \/ ApiWrapPtr
    \/ ApiMap
    \/ ApiFlatMap
    \/ ApiAndThen
    \/ ApiMapError
    \/ ApiMap2
    \/ ApiMap3
    \/ ApiGuard
    \/ ApiUnwrapOr
    \/ ApiUnwrapOrElse
    \/ ApiOptionUnwrapOr
    \/ ApiOptionUnwrapOrElse
    \/ ApiOptionIf
    \/ ApiOptionMap
    \/ ApiOptionFlatMap

SpecApi == InitApi /\ [][NextApi]_vars

\* ------------------------------------------------------------ fluent chains
\* A caller starts a chain with Chain or Chain2, applies methods to it and
\* ends it with a method that returns a Result or a value.  ch.c is the
\* wrapper in hand, ch.src the Result the chain started from, ch.hist the
\* methods applied so far, ch.called the caller's functions the last method
\* invoked and ch.log all those invoked so far.
ChainTypes == {"int", "string"}

ChainInputs == {Ok(1), Err("A"), Err(NilErr)}

\* A method that returns a wrapper: the chain goes on from it.
Continue(op, fn, e) ==
    ch' = [ch EXCEPT !.stage = "chain", !.c = e.ret, !.op = op,
                     !.hist = Append(@, [op |-> op, fn |-> fn]),
                     !.called = e.called, !.log = @ \o Names(e.called)]

\* A method that returns a Result or a value, or panics: the chain is over.
Terminate(op, fn, e, p) ==
    ch' = [ch EXCEPT !.stage = "done", !.op = op, !.ret = e.ret,
                     !.hist = Append(@, [op |-> op, fn |-> fn]),
                     !.called = e.called, !.log = @ \o Names(e.called),
                     !.panic = p]

DoChain ==
    /\ ch.stage = "none"
    /\ \E r \in ChainInputs, in \in ChainTypes, o \in ChainTypes :
          ch' = [ch EXCEPT !.stage = "chain", !.start = "Chain", !.src = r,
                           !.c = Chain(o, in, r), !.op = "Chain"]
    /\ UNCHANGED <<callVars, api, gs>>

DoChain2 ==
    /\ ch.stage = "none"
    /\ \E r \in ChainInputs, in \in ChainTypes, o1 \in ChainTypes, o2 \in ChainTypes :
          ch' = [ch EXCEPT !.stage = "chain2", !.start = "Chain2", !.src = r,
                           !.c = Chain2(o2, o1, in, r), !.op = "Chain2"]
    /\ UNCHANGED <<callVars, api, gs>>

DoChain2AndThen ==
    /\ ch.stage = "chain2"
    /\ \E fn \in AndThenFns :
          Continue("Chain2.AndThen", fn, ApplyToResult2AndThen(ch.c, Caller(fn)))
    /\ UNCHANGED <<callVars, api, gs>>

DoChain2Map ==
    /\ ch.stage = "chain2"
    /\ Continue("Chain2.Map", "inc", ApplyToResult2Map(ch.c, Caller("inc")))
    /\ UNCHANGED <<callVars, api, gs>>

DoMapError ==
    /\ ch.stage = "chain"
    /\ Len(ch.hist) < MaxChain
    /\ \E fn \in MapErrorFns :
          Continue("MapError", fn, ApplyToResultMapError(ch.c, Caller(fn)))
    /\ UNCHANGED <<callVars, api, gs>>

DoMap ==
    /\ ch.stage = "chain"
    /\ Terminate("Map", "inc", ApplyToResultMap(ch.c, Caller("inc")), NoPanic)
    /\ UNCHANGED <<callVars, api, gs>>

DoAndThen ==
    /\ ch.stage = "chain"
    /\ \E fn \in AndThenFns :
          Terminate("AndThen", fn, ApplyToResultAndThen(ch.c, Caller(fn)), NoPanic)
    /\ UNCHANGED <<callVars, api, gs>>

DoUnwrap ==
    /\ ch.stage = "chain"
    /\ LET u == ApplyToResultUnwrap(ch.c)
       IN  Terminate("Unwrap", "none", u, u.panic)
    /\ UNCHANGED <<callVars, api, gs>>

DoOrElse ==
    /\ ch.stage = "chain"
    /\ \E d \in Defaults :
          LET u == ApplyToResultOrElse(ch.c, d)
          IN  Terminate("OrElse", "none", u, u.panic)
    /\ UNCHANGED <<callVars, api, gs>>

DoOrElseGet ==
    /\ ch.stage = "chain"
    /\ LET u == ApplyToResultOrElseGet(ch.c, Caller("fromErr"))
       IN  Terminate("OrElseGet", "fromErr", u, u.panic)
    /\ UNCHANGED <<callVars, api, gs>>

NextChain ==
    \/ DoChain
    \/ DoChain2
    \/ DoChain2AndThen
    \/ DoChain2Map
    \/ DoMapError
    \/ DoMap
    \/ DoAndThen
    \/ DoUnwrap
    \/ DoOrElse
    \/ DoOrElseGet

SpecChain == InitApi /\ [][NextChain]_vars

\* ---------------------------------------------------------------- goroutines
\* Two goroutines, each running func() (res Result[T]) { defer Catch(&res) ...;
\* BubbleUp steps; return }.  A panic belongs to the goroutine that raised it:
\* it runs that goroutine's deferred calls, recover() in them sees that panic
\* only, and a panic that outlives them ends the program.
GoAlive == \A g \in Goroutines : gs[g].pc # "crashed"

GoDeferCatch(g) ==
    /\ GoAlive
    /\ gs[g].pc = "install"
    /\ gs[g].defers < MaxPoints
    /\ gs' = [gs EXCEPT ![g].defers = @ + 1]
    /\ UNCHANGED <<callVars, api, ch>>

GoBubbleUp(g) ==
    /\ GoAlive
    /\ gs[g].pc \in {"install", "body"}
    /\ gs[g].ip < MaxSteps
    /\ \E r \in StepResults :
          LET b == BubbleUp(r)
          IN  gs' = [gs EXCEPT ![g] =
                       IF b.panic = NoPanic
                       THEN [gs[g] EXCEPT !.pc = "body", !.ip = @ + 1]
                       ELSE [gs[g] EXCEPT !.pc = "unwind", !.dp = gs[g].defers,
                                          !.panic = b.panic, !.raised = b.panic.err]]
    /\ UNCHANGED <<callVars, api, ch>>

GoReturn(g) ==
    /\ GoAlive
    /\ gs[g].pc \in {"install", "body"}
    /\ \E r \in ReturnResults :
          gs' = [gs EXCEPT ![g] =
                   [gs[g] EXCEPT !.pc = "unwind", !.dp = gs[g].defers, !.res = r]]
    /\ UNCHANGED <<callVars, api, ch>>

\* A deferred Catch, were its recover() to see the panic of any goroutine.
GoRunCatchAnyStack(g) ==
    /\ GoAlive
    /\ gs[g].pc = "unwind"
    /\ gs[g].dp >= 1
    /\ \E h \in Goroutines :
          LET c == Catch(gs[g].res, gs[h].panic)
          IN  gs' = [k \in Goroutines |->
                       [gs[k] EXCEPT !.res = IF k = g THEN c.res ELSE @,
                                     !.panic = IF k = h THEN c.panic ELSE @,
                                     !.dp = IF k = g THEN @ - 1 ELSE @]]
    /\ UNCHANGED <<callVars, api, ch>>

\* The goroutine's next deferred Catch(&res) runs, on its own panic.
GoRunCatch(g) ==
    /\ GoAlive
    /\ gs[g].pc = "unwind"
    /\ gs[g].dp >= 1
    /\ LET c == Catch(gs[g].res, gs[g].panic)
       IN  gs' = [gs EXCEPT ![g] =
                    [gs[g] EXCEPT !.res = c.res, !.panic = c.panic, !.dp = @ - 1]]
    /\ UNCHANGED <<callVars, api, ch>>

\* No deferred call is left: the function returns, or the panic ends the program.
GoExit(g) ==
    /\ GoAlive
    /\ gs[g].pc = "unwind"
    /\ gs[g].dp = 0
    /\ gs' = [gs EXCEPT ![g].pc = IF gs[g].panic = NoPanic THEN "done" ELSE "crashed"]
    /\ UNCHANGED <<callVars, api, ch>>

NextGo ==
    \/ \E g \in Goroutines : GoDeferCatch(g)
    \/ \E g \in Goroutines : GoBubbleUp(g)
    \/ \E g \in Goroutines : GoReturn(g)
    \/ \E g \in Goroutines : GoRunCatch(g)
    \/ \E g \in Goroutines : GoExit(g)

SpecGo == InitApi /\ [][NextGo]_vars

\* ================================================================== claims
Done == pc = "done"

\* The first deferred call of the function is Catch(&res).
Guarded == Len(defers) >= 1 /\ defers[1].kind = "Catch"

Last(seq) == seq[Len(seq)]

\* The body ended with an error: a BubbleUp signal or a returned Err.
BodyFailed ==
    \/ bodyEnd.kind = "bubble"
    \/ bodyEnd.kind = "return" /\ sig = "result" /\ IsErr(bodyEnd.res)

\* C1: in a function whose first deferred call is Catch(&res), a BubbleUp on
\* Err(e) that no intermediate recovery point handles makes the function
\* return normally with res = Err(e); when the body returns without a signal
\* Catch leaves res as it found it, and the function returns what the body
\* returned when no handler ran.
C1_CatchConvertsSignal ==
    /\ [](Done /\ Guarded /\ calls = <<>> =>
            /\ bodyEnd.kind = "bubble" =>
                  panic = NoPanic /\ res = Err(bodyEnd.err) /\ ErrOf(res) = ErrOf(Last(trace))
            /\ bodyEnd.kind = "return" =>
                  panic = NoPanic /\ res = bodyEnd.res)
    /\ [][Unwinding("Catch") /\ panic = NoPanic => res' = res /\ panic' = NoPanic]_vars

C1_Witness ==
    /\ Done /\ Guarded /\ calls = <<>> /\ Len(defers) = 2
    /\ bodyEnd.kind = "bubble" /\ bodyEnd.err = "B"
    /\ panic = NoPanic /\ res = Err("B")

\* C2: when Catch or CatchErr runs with a panic in flight that is not the
\* library's tryError, the same panic value is in flight after it; run as
\* the first deferred call, the function ends panicking with that value.
C2_ForeignPanicReraised ==
    [][(pc = "unwind" /\ defers[dp].kind \in {"Catch", "CatchErr"} /\ panic.kind = "foreign") =>
            /\ panic' = panic
            /\ dp = 1 => pc' = "done"]_vars

C2_Witness ==
    /\ Done /\ Len(defers) = 1 /\ defers[1].kind = "CatchErr"
    /\ bodyEnd.kind = "foreign" /\ panic = Foreign(bodyEnd.err)

\* C3: with named results (val, err) and `defer CatchErr(&val, &err)`, a
\* BubbleUp on Err(e) makes the function return normally with err = e,
\* non-nil, and val the zero value of T.
C3_CatchErrWritesError ==
    (Done /\ sig = "pair" /\ defers = <<CatchErrPoint>> /\ bodyEnd.kind = "bubble") =>
        /\ panic = NoPanic
        /\ errSlot = bodyEnd.err
        /\ errSlot # NilErr
        /\ out = ZeroValue

\* Index of the first step of the body that was an Err, 0 if there is none.
FirstErr ==
    IF \E i \in 1 .. Len(trace) : IsErr(trace[i])
    THEN CHOOSE i \in 1 .. Len(trace) :
            IsErr(trace[i]) /\ \A j \in 1 .. (i - 1) : IsOk(trace[j])
    ELSE 0

\* C4: in a Catch-guarded function made of BubbleUp steps, no step runs after
\* the first step that is an Err, and (no handler taking over) the function
\* returns Err with that step's error; when every step is Ok all the steps
\* run, one after the other, and the Ok value the body returns is the result.
C4_ShortCircuit ==
    /\ [](FirstErr # 0 => FirstErr = Len(trace) /\ pc # "body" /\ ip = FirstErr - 1)
    /\ [](Done /\ Guarded /\ FirstErr # 0 /\ calls = <<>> =>
            panic = NoPanic /\ IsErr(res) /\ ErrOf(res) = ErrOf(trace[FirstErr]))
    /\ [](Done /\ Guarded /\ FirstErr = 0 /\ bodyEnd.kind = "return" /\ IsOk(bodyEnd.res) =>
            Len(trace) = MaxSteps /\ panic = NoPanic /\ res = bodyEnd.res)
    /\ [][Len(trace') = Len(trace) \/ (pc = "body" /\ Len(trace') = Len(trace) + 1)]_vars

C4_Witness ==
    /\ Done /\ defers = <<CatchPoint>>
    /\ Len(trace) = 1 /\ Len(trace) < MaxSteps /\ trace[1] = Err("A")
    /\ panic = NoPanic /\ res = Err("A")

\* The filter of the recovery point d matches the error e.
Matches(d, e) == \E i \in 1 .. Len(d.when) : ErrorsIs(e, d.when[i])

\* C5: a CatchWith with a non-empty `when` list invokes its handler only on
\* an error that is, or wraps, one of the listed errors; when the body's
\* error matches the list of none of the CatchWith points, no handler runs and
\* the function, guarded by Catch, returns Err with the body's error.
C5_CatchWithFilter ==
    /\ \A i \in 1 .. Len(calls) :
          LET d == defers[calls[i].point]
          IN  (d.kind = "CatchWith" /\ Len(d.when) > 0) => Matches(d, calls[i].err)
    /\ (/\ Done /\ Guarded /\ BodyFailed
        /\ \A i \in 2 .. Len(defers) :
              /\ defers[i].kind = "CatchWith"
              /\ Len(defers[i].when) > 0
              /\ ~Matches(defers[i], bodyEnd.err))
       => calls = <<>> /\ panic = NoPanic /\ IsErr(res) /\ ErrOf(res) = bodyEnd.err

C5_Witness ==
    /\ Done /\ Guarded /\ Len(defers) = 2
    /\ defers[2].kind = "CatchWith" /\ defers[2].when = <<"B", "A">>
    /\ bodyEnd.kind = "return" /\ bodyEnd.err = ErrEmptyResult
    /\ calls = <<>> /\ panic = NoPanic /\ ErrOf(res) = ErrEmptyResult

\* The error a recovery point finds when it runs: the error of the signal in
\* flight, else the error of the slot.
CurErr == IF panic.kind = "tryError" THEN panic.err ELSE ErrOf(res)

\* An error reaches the recovery point about to run, as a BubbleUp signal or
\* as an Err left in the slot by a normal return.
ErrorArrives ==
    \/ panic.kind = "tryError"
    \/ panic = NoPanic /\ IsErr(res)

\* The filter of the recovery point d applies to the error e.
Applies(d, e) == Len(d.when) = 0 \/ Matches(d, e)

\* C6: when the filter of a CatchWith applies to the error that reaches it
\* (an empty list applies to every error), as a returned Err or as a BubbleUp
\* signal, its handler is invoked exactly once, with that error; if the
\* handler returns v the slot becomes Ok(v), nothing is left in flight, and the
\* guarded function returns Ok(v).
C6_HandlerRecovers ==
    /\ [][(Unwinding("CatchWith") /\ ErrorArrives /\ Applies(defers[dp], CurErr)) =>
            /\ Len(calls') = Len(calls) + 1
            /\ Last(calls').point = dp
            /\ Last(calls').err = CurErr
            /\ Last(calls').ret.panic = NoPanic =>
                  res' = Ok(Last(calls').ret.v) /\ panic' = NoPanic]_vars
    /\ [](\A i, j \in 1 .. Len(calls) : calls[i].point = calls[j].point => i = j)
    /\ [](Done /\ Guarded /\ BodyFailed /\ calls # <<>> /\ Last(calls).ret.panic = NoPanic =>
            panic = NoPanic /\ res = Ok(Last(calls).ret.v))

C6_Witness ==
    /\ Done /\ Guarded /\ Len(defers) = 2
    /\ defers[2].kind = "CatchWith" /\ defers[2].when = <<>>
    /\ bodyEnd.kind = "bubble" /\ bodyEnd.err = "B"
    /\ Len(calls) = 1 /\ calls[1].err = "B" /\ calls[1].ret.v = 1
    /\ panic = NoPanic /\ res = Ok(1)

\* C7: the recovery points of a function run in the reverse of the order they
\* were deferred, the first-deferred Catch last.  With Catch, a catch-all
\* Fallback, CatchWith(hB, B, ...) and CatchWith(hA, A) deferred in this order
\* and a body failing with A: hA runs first; if it fails with B, hB runs next;
\* if hB returns v the function returns Ok(v), not the Fallback value.
C7_LastInstalledFirstChecked ==
    /\ [][pc = "unwind" => dp' = dp - 1 /\ defers' = defers]_vars
    /\ [](pc = "unwind" => Len(calls) <= Len(defers) - dp)
    /\ [](\A i, j \in 1 .. Len(calls) : i < j => calls[i].point > calls[j].point)
    /\ [](\A i \in 1 .. Len(calls) : pc = "unwind" => calls[i].point > dp)
    /\ []((/\ Done /\ Len(defers) = 4 /\ defers[1] = CatchPoint
           /\ defers[2].kind = "Fallback" /\ defers[2].when = <<>>
           /\ defers[3] = CatchWithPoint(BubbleHandler(ZeroResult), <<"B", "A">>)
           /\ defers[4] = CatchWithPoint(BubbleHandler(ZeroResult), <<"A">>)
           /\ BodyFailed /\ bodyEnd.err = "A")
          => /\ Len(calls) >= 1 /\ calls[1].point = 4 /\ calls[1].err = "A"
             /\ calls[1].ret.panic = TryError("B") =>
                   /\ Len(calls) >= 2 /\ calls[2].point = 3 /\ calls[2].err = "B"
                   /\ calls[2].ret.panic = NoPanic =>
                         /\ Len(calls) = 2
                         /\ panic = NoPanic
                         /\ res = Ok(calls[2].ret.v)
                         /\ res # Ok(defers[2].handler.v))

C7_Witness ==
    /\ Done /\ Len(defers) = 4 /\ defers[1] = CatchPoint
    /\ defers[2].kind = "Fallback" /\ defers[2].when = <<>>
    /\ defers[3] = CatchWithPoint(BubbleHandler(ZeroResult), <<"B", "A">>)
    /\ defers[4] = CatchWithPoint(BubbleHandler(ZeroResult), <<"A">>)
    /\ bodyEnd.kind = "return" /\ bodyEnd.err = "A"
    /\ Len(calls) = 2
    /\ calls[1].point = 4 /\ calls[1].ret.panic = TryError("B")
    /\ calls[2].point = 3 /\ calls[2].ret.panic = NoPanic
    /\ panic = NoPanic /\ res = Ok(2)

\* C8: a handler that calls BubbleUp on Err(B) raises a new signal carrying B
\* that goes on to the next recovery point; when no remaining point handles
\* it, the Catch-guarded function returns Err(B), not Ok and not the error
\* the handler was invoked for.
C8_HandlerRethrow ==
    /\ [][(pc = "unwind" /\ Len(calls') = Len(calls) + 1 /\ Last(calls').ret.panic # NoPanic) =>
            /\ panic' = Last(calls').ret.panic
            /\ IsErr(res') /\ ErrOf(res') = Last(calls').err]_vars
    /\ [](Done /\ Guarded /\ calls # <<>> /\ Last(calls).ret.panic # NoPanic =>
            /\ panic = NoPanic
            /\ IsErr(res)
            /\ TryError(ErrOf(res)) = Last(calls).ret.panic)

C8_Witness ==
    /\ Done /\ Guarded /\ Len(defers) = 2
    /\ defers[2].kind = "CatchWith" /\ defers[2].when = <<"A">>
    /\ BodyFailed /\ bodyEnd.err = "A"
    /\ Len(calls) = 1 /\ calls[1].err = "A" /\ calls[1].ret.panic = TryError("B")
    /\ panic = NoPanic /\ res = Err("B")

\* A CatchWith or Fallback with a filter that does not match is about to run
\* with a BubbleUp signal in flight.
SignalMeetsOtherFilter ==
    /\ pc = "unwind" /\ IsPoint(defers[dp])
    /\ panic.kind = "tryError"
    /\ ~Applies(defers[dp], panic.err)

\* C9 as stated: a BubbleUp signal reaching a CatchWith or Fallback whose
\* filter does not match is still in flight, unchanged, after that point.
C9_SignalPassesThrough ==
    [][SignalMeetsOtherFilter => panic' = panic]_vars

\* C9 amended: such a point invokes no handler and keeps the error, but it
\* ends the unwinding: the signal becomes the slot state Err(e), nothing is
\* in flight afterwards, and the points deferred earlier see a normal return.
C9_SignalBecomesSlotErr ==
    [][SignalMeetsOtherFilter =>
            /\ panic' = NoPanic
            /\ res' = Err(panic.err)
            /\ calls' = calls]_vars

C9_Witness ==
    /\ Done /\ ~Guarded /\ Len(defers) = 1
    /\ defers[1].kind = "CatchWith" /\ defers[1].when = <<"A">>
    /\ bodyEnd.kind = "bubble" /\ bodyEnd.err = "B"
    /\ calls = <<>> /\ panic = NoPanic /\ res = Err("B")

\* C10: a CatchWith or Fallback that runs while the slot is Ok does nothing:
\* no handler is invoked, the slot keeps the same Ok value and what is in
\* flight stays as it is.
C10_NoOpOnOk ==
    [][(pc = "unwind" /\ IsPoint(defers[dp]) /\ IsOk(res)) =>
            /\ res' = res
            /\ calls' = calls
            /\ panic' = panic]_vars

C10_Witness ==
    /\ Done /\ Guarded /\ Len(defers) = 3
    /\ defers[2].kind = "Fallback" /\ defers[2].when = <<>>
    /\ defers[3].kind = "CatchWith" /\ defers[3].when = <<>>
    /\ bodyEnd.kind = "bubble"
    /\ Len(calls) = 1 /\ calls[1].point = 3
    /\ panic = NoPanic /\ res = Ok(1)

\* C11: CatchErr, run while the function returns normally, leaves the value
\* slot and the error slot as the body set them.
C11_CatchErrKeepsSlots ==
    /\ [][(Unwinding("CatchErr") /\ panic = NoPanic) =>
            out' = out /\ errSlot' = errSlot /\ panic' = NoPanic]_vars
    /\ [](Done /\ defers = <<CatchErrPoint>> /\ bodyEnd.kind = "return" =>
            /\ panic = NoPanic
            /\ out = bodyEnd.res.value.value
            /\ errSlot = bodyEnd.err)

C11_Witness ==
    /\ Done /\ defers = <<CatchErrPoint>> /\ bodyEnd.kind = "return"
    /\ ip = MaxSteps /\ panic = NoPanic /\ out = 2 /\ errSlot = "A"

\* C12: Fallback(&res, value, when...) does what CatchWith(&res, handler,
\* when...) does with a handler that returns value whatever the error: the
\* same slot, the same panic in flight and as many handler invocations, for
\* every slot state, every panic in flight and every `when` list.
C12_FallbackIsCatchWith ==
    /\ [](\A v \in FallbackValues, w \in WhenLists :
            Fallback(res, panic, v, w) = CatchWith(res, panic, RetHandler(v), w))
    /\ [][Unwinding("Fallback") =>
            LET c == CatchWith(res, panic, RetHandler(defers[dp].handler.v), defers[dp].when)
            IN  /\ res' = c.res
                /\ panic' = c.panic
                /\ Len(calls') = Len(calls) + Len(c.called)]_vars

C12_Witness ==
    /\ Done /\ Guarded /\ Len(defers) = 2
    /\ defers[2] = FallbackPoint(3, <<"B", "A">>)
    /\ bodyEnd.kind = "bubble" /\ bodyEnd.err = "wA"
    /\ Len(calls) = 1 /\ calls[1].err = "wA"
    /\ panic = NoPanic /\ res = Ok(3)

OkState(r) ==
    IsOk(r) /\ ~IsErr(r) /\ IsSome(r.value) /\ ErrOf(r) = NilErr /\ r.err = NilErr

ErrState(r) ==
    IsErr(r) /\ ~IsOk(r) /\ ~IsSome(r.value) /\ ErrOf(r) # NilErr

C14_ResultOkXorErr ==
    /\ OkState(api.r) \/ ErrState(api.r)
    /\ ~(OkState(api.r) /\ ErrState(api.r))

C14_Witness ==
    /\ api.op = "Guard" /\ api.n = 2
    /\ api.args[1] = Err("A") /\ api.args[2].kind = "CatchWith"
    /\ Names(api.called) = <<"handler">>
    /\ api.r = Ok(1)

\* C15: an Err built with a nil error never exposes nil: Err(nil).Err() is
\* ErrEmptyResult, and ErrEmptyResult is what Map, AndThen, FlatMap, Map2 and
\* Map3 store in the Err they return, what MapError hands to its function,
\* what BubbleUp raises and what Catch stores or hands to a handler.
NilErrIn(r) == r = Err(NilErr)

C15_NilErrBecomesSentinel ==
    /\ [](ErrOf(Err(NilErr)) = ErrEmptyResult)
    /\ [](BubbleUp(Err(NilErr)).panic = TryError(ErrEmptyResult))
    /\ [][(NilErrIn(api.r) /\ api'.n = api.n + 1) =>
            CASE api'.op \in {"Map", "AndThen", "FlatMap", "Map2", "Map3"} ->
                   api'.r = Err(ErrEmptyResult) /\ api'.called = <<>>
              [] api'.op = "MapError" ->
                   /\ Len(api'.called) = 1
                   /\ api'.called[1].arg = ErrEmptyResult
              [] api'.op = "Guard" ->
                   /\ \A i \in 1 .. Len(api'.called) : api'.called[i].arg = ErrEmptyResult
                   /\ api'.args[2].kind = "Fallback" => Len(api'.called) = 1
                   /\ api'.args[2].kind # "Fallback" => api'.r = Err(ErrEmptyResult)]_vars
    /\ [][(IsOk(api.r) /\ api'.n = api.n + 1 /\ api'.op = "Map2") =>
            (NilErrIn(api'.args[2]) => api'.r = Err(ErrEmptyResult))]_vars

C15_Witness ==
    /\ api.op = "Guard" /\ api.n = 2
    /\ api.args[2] = CatchPoint /\ NilErrIn(api.args[1])
    /\ api.log = <<"failNil">>
    /\ api.r = Err(ErrEmptyResult)

\* C16: once the Result in hand is an Err, a further Map, AndThen or FlatMap
\* calls no function and returns an Err with the same error; so in
\* Ok -> step1 -> step2 -> step3 where step2 returns Err(e2), step3's function
\* is never invoked and the final Result is Err(e2).
ChainOps == {"Map", "AndThen", "FlatMap"}

C16_ErrShortCircuitsChain ==
    /\ [][(IsErr(api.r) /\ api'.n = api.n + 1 /\ api'.op \in ChainOps) =>
            /\ api'.called = <<>>
            /\ api'.log = api.log
            /\ IsErr(api'.r)
            /\ ErrOf(api'.r) = ErrOf(api.r)]_vars
    /\ [](api.op \in ChainOps /\ api.log # <<>> /\ Last(api.log) = "failA" =>
            api.r = Err("A"))

C16_Witness ==
    /\ api.n = 3 /\ api.op = "AndThen"
    /\ api.args = <<Err("A"), "okInc">>
    /\ api.log = <<"okInc", "failA">>
    /\ api.called = <<>>
    /\ api.r = Err("A")

\* C17: Map2 and Map3 return the first Err of their inputs, left to right,
\* without calling fn; only when every input is Ok is fn called, once, and its
\* value returned as Ok.
FirstErrOf(rs) ==
    LET i == CHOOSE i \in 1 .. Len(rs) : IsErr(rs[i]) /\ \A j \in 1 .. i - 1 : IsOk(rs[j])
    IN  ErrOf(rs[i])

CombinesLeftToRight(rs, sum) ==
    IF \E i \in 1 .. Len(rs) : IsErr(rs[i])
    THEN api.ret = Err(FirstErrOf(rs)) /\ api.called = <<>>
    ELSE /\ api.ret = Ok(sum)
         /\ Len(api.called) = 1
         /\ api.called[1].arg = [i \in 1 .. Len(rs) |-> rs[i].value.value]

C17_MapNFirstErr ==
    /\ Map2(Ok(1), Err("B"), Caller("add")).ret = Err("B")
    /\ Map2(Err("B"), Ok(1), Caller("add")).ret = Err("B")
    /\ Map2(Err("A"), Err("B"), Caller("add")).ret = Err("A")
    /\ api.op = "Map2" =>
         LET r == api.args[1]
             s == api.args[2]
         IN  CombinesLeftToRight(<<r, s>>, r.value.value + s.value.value)
    /\ api.op = "Map3" =>
         LET r == api.args[1]
             s == api.args[2]
             t == api.args[3]
         IN  CombinesLeftToRight(<<r, s, t>>, r.value.value + s.value.value + t.value.value)

C17_Witness ==
    /\ api.op = "Map2"
    /\ api.args[1] = Err("A") /\ api.args[2] = Err("B")
    /\ api.called = <<>>
    /\ api.ret = Err("A")

\* C18: Wrap(v, nil) is Ok(v) and Wrap(v, e), e non-nil, is Err(e), on which
\* UnwrapOr(d) yields d; WrapPtr(p, e), e non-nil, is Err(e) whatever p is,
\* WrapPtr(nil, nil) is Err("nil value returned") and WrapPtr(p, nil), p
\* non-nil, is Ok(p).
C18_WrapErrorFirst ==
    /\ api.op = "Wrap" =>
         LET v == api.args[1]
             e == api.args[2]
         IN  IF e = NilErr
             THEN api.r = Ok(v)
             ELSE api.r = Err(e) /\ \A d \in Defaults : UnwrapOr(api.r, d).ret = d
    /\ api.op = "WrapPtr" =>
         LET p == api.args[1]
             e == api.args[2]
         IN  IF e # NilErr THEN api.r = Err(e)
             ELSE IF p = NilPtr THEN api.r = Err(ErrNilValue)
             ELSE api.r = Ok(p)

C18_Witness ==
    /\ api.op = "WrapPtr"
    /\ api.args = <<NilPtr, NilErr>>
    /\ IsErr(api.r) /\ ErrOf(api.r) = ErrNilValue

\* C19 as stated: UnwrapOr(d) returns d if and only if the container is
\* None/Err, and the contained value otherwise.
C19_DefaultIffEmpty ==
    /\ api.op = "UnwrapOr" =>
         /\ (api.ret = api.args[2]) <=> IsErr(api.args[1])
         /\ IsOk(api.args[1]) => api.ret = api.args[1].value.value
    /\ api.op = "Option.UnwrapOr" =>
         /\ (api.ret = api.args[2]) <=> ~IsSome(api.args[1])
         /\ IsSome(api.args[1]) => api.ret = api.args[1].value

\* C19: UnwrapOr(d) returns d when the container is None/Err and the contained
\* value when it is Some/Ok, which may itself be d; it calls no function.
C19_UnwrapOrDefaultWhenEmpty ==
    /\ api.op = "UnwrapOr" =>
         /\ api.ret = IF IsErr(api.args[1]) THEN api.args[2] ELSE api.args[1].value.value
         /\ api.called = <<>>
    /\ api.op = "Option.UnwrapOr" =>
         /\ api.ret = IF IsSome(api.args[1]) THEN api.args[1].value ELSE api.args[2]
         /\ api.called = <<>>

C19_Witness ==
    /\ api.op = "Option.UnwrapOr"
    /\ api.args[1] = Some(1) /\ api.args[2] = 1
    /\ api.ret = 1

\* C20: option.If invokes exactly one of its two functions, once: someFn with
\* the stored value when Some, noneFn when None; so Option.UnwrapOrElse(fn)
\* invokes fn when None and never when Some.
C20_IfInvokesOneBranch ==
    /\ api.op = "option.If" =>
         /\ Len(api.called) = 1
         /\ IF IsSome(api.args[1])
            THEN /\ api.called[1].fn = api.args[2]
                 /\ api.called[1].arg = api.args[1].value
                 /\ api.ret = Apply(api.args[2], api.args[1].value)
            ELSE /\ api.called[1].fn = api.args[3]
                 /\ api.ret = Apply(api.args[3], <<>>)
    /\ api.op = "Option.UnwrapOrElse" =>
         IF IsSome(api.args[1])
         THEN api.called = <<>> /\ api.ret = api.args[1].value
         ELSE Names(api.called) = <<api.args[2]>> /\ api.ret = Apply(api.args[2], <<>>)

C20_Witness ==
    /\ api.op = "option.If"
    /\ api.args[1] = Some(2)
    /\ Names(api.called) = <<"inc">>
    /\ api.ret = 3

\* What the accessors IsOk, Value and Err tell of two Results is the same.
SameResult(a, b) ==
    IsOk(a) = IsOk(b) /\ a.value = b.value /\ ErrOf(a) = ErrOf(b)

C22_FlatMapIsAndThen ==
    /\ \A fn \in AndThenFns : FlatMap(api.r, Caller(fn)) = AndThen(api.r, Caller(fn))
    /\ api.op \in {"FlatMap", "AndThen"} =>
         IF IsOk(api.args[1])
         THEN /\ Len(api.called) = 1
              /\ api.called[1].arg = api.args[1].value.value
              /\ api.ret = Apply(api.args[2], api.args[1].value.value)
         ELSE /\ api.called = <<>>
              /\ api.ret = Err(ErrOf(api.args[1]))

C22_Witness ==
    /\ api.op = "FlatMap"
    /\ api.args = <<Ok(1), "failNil">>
    /\ Names(api.called) = <<"failNil">>
    /\ api.ret = Err(NilErr)

\* C23: MapError(fn) on Ok(v) returns Ok(v) and does not call fn; on Err(e) it
\* calls fn(e) once and returns Err(fn(e)), which is in the Err state.
C23_MapErrorOnlyErrArm ==
    api.op = "MapError" =>
        IF IsOk(api.args[1])
        THEN api.ret = api.args[1] /\ api.called = <<>>
        ELSE /\ Len(api.called) = 1
             /\ api.called[1].arg = ErrOf(api.args[1])
             /\ api.ret = Err(Apply(api.args[2], ErrOf(api.args[1])))
             /\ IsErr(api.ret) /\ ErrOf(api.ret) # NilErr

C23_Witness ==
    /\ api.op = "MapError"
    /\ api.args = <<Err("A"), "toNil">>
    /\ Names(api.called) = <<"toNil">>
    /\ IsErr(api.ret) /\ ErrOf(api.ret) = ErrEmptyResult

\* C24: the fluent chain adds nothing to the combinators: Chain(r).Map(f) is
\* result.Map(r, f), Chain(r).AndThen(f) is result.AndThen(r, f) and
\* Chain2(r).AndThen(f).Map(g) is result.Map(result.AndThen(r, f), g), in the
\* Result returned and in the functions called, r Ok or Err.
Direct(op) == ch.stage = "done" /\ ch.start = "Chain" /\ Len(ch.hist) = 1 /\ ch.op = op

TwoStep ==
    /\ ch.stage = "done" /\ ch.start = "Chain2" /\ Len(ch.hist) = 2
    /\ ch.hist[1].op = "Chain2.AndThen" /\ ch.op = "Map"

C25_PointsCheckedOnce ==
    /\ [](\A i, j \in DOMAIN calls : i < j => calls[i].point > calls[j].point)
    /\ [](pc = "unwind" => \A i \in DOMAIN calls : calls[i].point > dp)
    /\ [][pc = "unwind" =>
            /\ dp' = dp - 1
            /\ Len(calls') >= Len(calls)
            /\ \A i \in DOMAIN calls' :
                  IF i <= Len(calls) THEN calls'[i] = calls[i] ELSE calls'[i].point = dp]_vars

C25_Witness ==
    /\ Done /\ Guarded /\ Len(defers) = 3
    /\ defers[3].kind \in {"CatchWith", "Fallback"} /\ defers[3].when = <<"A">>
    /\ defers[2].kind = "CatchWith"
    /\ bodyEnd.kind = "bubble" /\ bodyEnd.err = "B"
    /\ Len(calls) = 1 /\ calls[1].point = 2 /\ calls[1].err = "B"
    /\ calls[1].ret.panic = TryError("A")
    /\ Matches(defers[3], "A")
    /\ panic = NoPanic /\ res = Err("A")

\* C26: a BubbleUp signal does not leave a Catch-guarded function: the
\* function returns normally, with Err(e) when its body called BubbleUp on an
\* Err with error e; a caller that calls BubbleUp on that returned Err under
\* its own Catch returns Err with the same e.
CatchGuarded(a) == a.op = "Guard" /\ a.args[2] = CatchPoint

C26_SignalStopsAtCatch ==
    /\ [](Guard(api.r, CatchPoint).panic = NoPanic)
    /\ [][(api'.n = api.n + 1 /\ CatchGuarded(api')) =>
            /\ BubbleUp(api.r).panic = IF IsErr(api.r) THEN TryError(ErrOf(api.r)) ELSE NoPanic
            /\ api'.called = <<>>
            /\ api'.r = IF IsErr(api.r) THEN Err(ErrOf(api.r)) ELSE api.r]_vars
    /\ [][(api'.n = api.n + 1 /\ CatchGuarded(api) /\ CatchGuarded(api')
             /\ IsErr(api.args[1])) =>
            /\ IsErr(api.r)
            /\ api'.r = Err(ErrOf(api.args[1]))]_vars

C26_Witness ==
    /\ api.n = 2 /\ CatchGuarded(api)
    /\ api.args[1] = Err("A")
    /\ api.log = <<>>
    /\ api.r = Err("A")

\* A CatchWith or Fallback is about to run with a panic in flight that is not
\* the BubbleUp signal.
ForeignMeetsPoint ==
    /\ pc = "unwind" /\ IsPoint(defers[dp])
    /\ panic.kind = "foreign"

\* C29: a panic that is not the BubbleUp signal passes through CatchWith and
\* Fallback untouched: it is raised again with the same value, no handler is
\* invoked and the result slot keeps its value, whatever the slot holds and
\* whatever the `when` list is.
C29_ForeignPassesUntouched ==
    [][ForeignMeetsPoint =>
         /\ panic' = panic
         /\ calls' = calls
         /\ res' = res]_vars

\* The body ended in the panic of an Unwrap, Expect or ExpectErr call.
ExtractionFailed ==
    /\ bodyEnd.kind = "foreign"
    /\ \E call \in Extractions, r \in ExtractionInputs :
          Extract(call, r).panic = Foreign(bodyEnd.err)

\* C30: the panic of an Unwrap, Expect or ExpectErr call in the body of a
\* function guarded by Catch or CatchErr, with any CatchWith and Fallback points
\* deferred after it, is not turned into an Err result: after the deferred
\* calls have run the same panic is still in flight.
C30_ExtractionPanicPropagates ==
    [](Done /\ ExtractionFailed /\ (Guarded \/ defers = <<CatchErrPoint>>) =>
         panic = Foreign(bodyEnd.err))

\* C27 as stated: the function passed to Chain2(...).AndThen or
\* Chain2(...).Map is not invoked before a terminal call is made.
C27_StepDeferredUntilTerminal ==
    (ch.stage = "chain" /\ ch.start = "Chain2" /\ Len(ch.hist) = 1) => ch.log = <<>>

\* C27: Chain2(...).AndThen(fn) and Chain2(...).Map(fn) apply fn at once,
\* through result.AndThen / result.Map on the held Result, and return a
\* wrapper around the Result obtained; the terminal Unwrap and OrElse call no
\* function and OrElseGet calls only its own.
C27_StepAppliedAtOnce ==
    /\ [][(ch.stage = "chain2" /\ ch'.op = "Chain2.AndThen") =>
            LET a == AndThen(ch.src, Caller(ch'.hist[1].fn))
            IN  /\ ch'.c.result = a.ret
                /\ ch'.called = a.called
                /\ Len(ch'.called) = IF IsOk(ch.src) THEN 1 ELSE 0]_vars
    /\ [][(ch.stage = "chain2" /\ ch'.op = "Chain2.Map") =>
            LET a == Map(ch.src, Caller(ch'.hist[1].fn))
            IN  /\ ch'.c.result = a.ret
                /\ ch'.called = a.called
                /\ Len(ch'.called) = IF IsOk(ch.src) THEN 1 ELSE 0]_vars
    /\ [][(ch.stage = "chain" /\ ch'.op \in {"Unwrap", "OrElse"}) =>
            ch'.called = <<>> /\ ch'.log = ch.log]_vars
    /\ [][(ch.stage = "chain" /\ ch'.op = "OrElseGet") =>
            \A i \in 1 .. Len(ch'.called) : ch'.called[i].fn = "fromErr"]_vars

C27_Witness ==
    /\ ch.stage = "chain" /\ ch.start = "Chain2" /\ Len(ch.hist) = 1
    /\ ch.op = "Chain2.AndThen" /\ ch.src = Ok(1)
    /\ ch.log = <<"okInc">>
    /\ ch.c.result = Ok(2)

\* C28: on a chain built with Chain(r) and any number of MapError calls,
\* Unwrap does not panic: it returns Err with the chain's error when the held
\* Result is Err and the held Ok Result otherwise.
C28_UnwrapNeverPanics ==
    (ch.stage = "done" /\ ch.start = "Chain" /\ ch.op = "Unwrap") =>
        /\ ch.panic = NoPanic
        /\ ch.ret = IF IsErr(ch.c.result) THEN Err(ErrOf(ch.c.result)) ELSE ch.c.result

====
